---------------------------- MODULE Spec2Model ----------------------------
(***************************************************************************)
(* DinoGen round lifecycle: the App component of src/App.tsx together with *)
(* the two remote calls of src/services/gemini.ts.                         *)
(*                                                                         *)
(* One step of the model is one run-to-completion piece of JavaScript: an  *)
(* event handler, the part of an async function between two awaits, or the *)
(* arrival of a remote response.                                           *)
(***************************************************************************)
EXTENDS Integers, Sequences, FiniteSets, TLC

VARIABLES
    status,            \* useState<AppStatus>                      App.tsx:19
    questionData,      \* useState<DinoQuestion | null>            App.tsx:20
    imageUrl,          \* useState<string | null>                  App.tsx:21
    shuffledOptions,   \* useState<string[]>                       App.tsx:22
    selectedOption,    \* useState<string | null>                  App.tsx:23
    isLoadingNext,     \* useState(false)                          App.tsx:26
    nextReady,         \* useState(false)                          App.tsx:27
    showConfetti,      \* useState(false)                          App.tsx:28
    stats,             \* useState<GameState>                      App.tsx:30
    nextRoundPromise,  \* useRef: the promise held in the slot     App.tsx:37
    fetches,           \* the fetchRoundData() calls made so far   App.tsx:40
    waiters,           \* loadNewQuestion calls suspended at await App.tsx:87
    answers,           \* history: verdict of every applied answer
    installed,         \* history: the fetches installed as rounds
    staleAtRetry       \* history: the fetches in flight when a retry began

vars == << status, questionData, imageUrl, shuffledOptions, selectedOption,
           isLoadingNext, nextReady, showConfetti, stats, nextRoundPromise,
           fetches, waiters, answers, installed, staleAtRetry >>

-----------------------------------------------------------------------------
(* Bounds *)

\* round fetches (fetchRoundData calls) one run may issue
MaxFetches == 4
\* dinosaur names the question universe of the shuffle check is built from
NumNames == 4
\* Math.random() is drawn from k / RandomResolution, k = 0 .. RandomResolution-1
RandomResolution == 12

-----------------------------------------------------------------------------
(* Values *)

\* enum AppStatus
IDLE == "IDLE"
LOADING_QUESTION == "LOADING_QUESTION"
READY_TO_ANSWER == "READY_TO_ANSWER"
ANSWERED == "ANSWERED"
ERROR == "ERROR"

AppStatus == {IDLE, LOADING_QUESTION, READY_TO_ANSWER, ANSWERED, ERROR}

\* null of a string-valued state (selectedOption)
NullString == "null"
\* null of imageUrl; an image is modelled by the pair it was generated for
NullImage == << >>
\* null of the promise slot; a promise is named by the index of its fetch
NoPromise == 0

NameList == << "Ankylosaurus", "Stegosaurus", "Euoplocephalus", "Nodosaurus",
               "Carnotaurus", "Baryonyx" >>

Names == { NameList[i] : i \in 1..NumNames }

\* interface DinoQuestion
DinoQuestion(name, ds, fact, desc) ==
    [ correctName |-> name, distractors |-> ds, funFact |-> fact,
      visualDescription |-> desc ]

\* null of questionData
NullQuestion == DinoQuestion(NullString, << >>, NullString, NullString)

\* The answers the text model gives in a run of the game: the round of the
\* spec's scenario, a second well-formed round, and a round whose distractors
\* repeat each other and the correct name (the schema does not forbid it).
QuestionPool ==
    { DinoQuestion("Ankylosaurus",
                   << "Stegosaurus", "Euoplocephalus", "Nodosaurus" >>,
                   "club tail", "armored, low-slung"),
      DinoQuestion("Stegosaurus",
                   << "Nodosaurus", "Ankylosaurus", "Euoplocephalus" >>,
                   "walnut brain", "plated back"),
      DinoQuestion("Nodosaurus",
                   << "Nodosaurus", "Stegosaurus", "Stegosaurus" >>,
                   "no tail club", "knobbly armor") }

\* Every question over Names with three distractors, well-formed or not.
AllQuestions ==
    { DinoQuestion(n, ds, "fact", "description") :
        n \in Names, ds \in [1..3 -> Names] }

\* interface GameState
GameState(c, i, s) == [ correct |-> c, incorrect |-> i, streak |-> s ]

\* One fetchRoundData() call: where it is, and what it has obtained so far.
\*   "question"  generateDinoData() is in flight
\*   "image"     generateDinoImage(data.correctName, ...) is in flight
\*   "done"      resolved with {data, img}
\*   "failed"    resolved with null
Fetch(phase, data, img) == [ phase |-> phase, data |-> data, img |-> img ]

Resolved(id) == fetches[id].phase \in {"done", "failed"}
InFlight(id) == fetches[id].phase \in {"question", "image"}

-----------------------------------------------------------------------------
(* services/gemini.ts *)

\* generateDinoImage: the prompt is built from the name and the description,
\* and the image returned is the image of that prompt.
generateDinoImage(dinoName, description) == << dinoName, description >>


-----------------------------------------------------------------------------
(* App.tsx: the shuffle of loadNewQuestion *)

\* Math.floor(Math.random() * (i + 1)), for every value Math.random() takes
RandomIndex(i) ==
    { (r * (i + 1)) \div RandomResolution : r \in 0..(RandomResolution - 1) }

\* [options[i], options[j]] = [options[j], options[i]]   (i, j count from 0)
SwapOverwrite(options, i, j) ==
    [ options EXCEPT ![i + 1] = options[j + 1] ]

Swap(options, i, j) ==
    [ options EXCEPT ![i + 1] = options[j + 1], ![j + 1] = options[i + 1] ]

\* for (let i = ...; i > 0; i--) { j = random; swap }: every array the loop
\* can end with, entered with index i
RECURSIVE ShuffleFrom(_, _)
ShuffleFrom(options, i) ==
    IF i > 0
    THEN UNION { ShuffleFrom(Swap(options, i, j), i - 1) : j \in RandomIndex(i) }
    ELSE { options }

\* const options = [...data.distractors, data.correctName]
OptionsOf(data) == data.distractors \o << data.correctName >>

ShuffledOptionsOf(data) ==
    ShuffleFrom(OptionsOf(data), Len(OptionsOf(data)) - 1)

-----------------------------------------------------------------------------
(* App.tsx: fetchRoundData and preloadNextQuestion *)

\* The three things preloadNextQuestion reads and writes.
Slot(promise, fs, ready) ==
    [ promise |-> promise, fetches |-> fs, nextReady |-> ready ]

\* fetchRoundData() up to its first await: generateDinoData() is issued
StartFetch == Fetch("question", NullQuestion, NullImage)

preloadNextQuestionUnguarded(s) ==
    Slot(Len(s.fetches) + 1, Append(s.fetches, StartFetch), FALSE)

preloadNextQuestion(s) ==
    IF s.promise # NoPromise
    THEN s                                            \* Already loading
    ELSE Slot(Len(s.fetches) + 1, Append(s.fetches, StartFetch), FALSE)

SetSlot(s) ==
    /\ nextRoundPromise' = s.promise
    /\ fetches' = s.fetches
    /\ nextReady' = s.nextReady

\* generateDinoData() resolves with the question q; fetchRoundData goes on
\* to issue generateDinoImage(data.correctName, data.visualDescription)
DinoDataArrives(id, q) ==
    /\ fetches[id].phase = "question"
    /\ fetches' = [ fetches EXCEPT ![id] = Fetch("image", q, NullImage) ]
    /\ UNCHANGED << status, questionData, imageUrl, shuffledOptions,
                    selectedOption, isLoadingNext, nextReady, showConfetti,
                    stats, nextRoundPromise, waiters, answers, installed,
                    staleAtRetry >>

\* generateDinoData() throws: fetchRoundData catches and returns null; the
\* then-callback of preloadNextQuestion passes null on
DinoDataFailsSetsError(id) ==
    /\ fetches[id].phase = "question"
    /\ fetches' = [ fetches EXCEPT
                      ![id] = Fetch("failed", NullQuestion, NullImage) ]
    /\ status' = ERROR
    /\ UNCHANGED << questionData, imageUrl, shuffledOptions,
                    selectedOption, isLoadingNext, nextReady, showConfetti,
                    stats, nextRoundPromise, waiters, answers, installed,
                    staleAtRetry >>

DinoDataFails(id) ==
    /\ fetches[id].phase = "question"
    /\ fetches' = [ fetches EXCEPT
                      ![id] = Fetch("failed", NullQuestion, NullImage) ]
    /\ UNCHANGED << status, questionData, imageUrl, shuffledOptions,
                    selectedOption, isLoadingNext, nextReady, showConfetti,
                    stats, nextRoundPromise, waiters, answers, installed,
                    staleAtRetry >>

\* generateDinoImage() resolves: fetchRoundData returns {data, img} and the
\* then-callback sets nextReady
DinoImageArrives(id) ==
    /\ fetches[id].phase = "image"
    /\ LET data == fetches[id].data
       IN fetches' = [ fetches EXCEPT ![id] =
              Fetch("done", data,
                    generateDinoImage(data.correctName,
                                      data.visualDescription)) ]
    /\ nextReady' = TRUE
    /\ UNCHANGED << status, questionData, imageUrl, shuffledOptions,
                    selectedOption, isLoadingNext, showConfetti, stats,
                    nextRoundPromise, waiters, answers, installed,
                    staleAtRetry >>

\* generateDinoImage() throws: the question already fetched is dropped with it
DinoImageFailsPartial(id) ==
    /\ fetches[id].phase = "image"
    /\ fetches' = [ fetches EXCEPT
                      ![id] = Fetch("done", fetches[id].data, NullImage) ]
    /\ UNCHANGED << status, questionData, imageUrl, shuffledOptions,
                    selectedOption, isLoadingNext, nextReady, showConfetti,
                    stats, nextRoundPromise, waiters, answers, installed,
                    staleAtRetry >>

DinoImageFails(id) ==
    /\ fetches[id].phase = "image"
    /\ fetches' = [ fetches EXCEPT
                      ![id] = Fetch("failed", NullQuestion, NullImage) ]
    /\ UNCHANGED << status, questionData, imageUrl, shuffledOptions,
                    selectedOption, isLoadingNext, nextReady, showConfetti,
                    stats, nextRoundPromise, waiters, answers, installed,
                    staleAtRetry >>

-----------------------------------------------------------------------------
(* App.tsx: loadNewQuestion *)

\* the prefetch the slot holds in flight when loadNewQuestion(true) is called
\* in ERROR (history only)
StaleNow(isInitial) ==
    IF /\ isInitial
       /\ status = ERROR
       /\ nextRoundPromise # NoPromise
       /\ InFlight(nextRoundPromise)
    THEN { nextRoundPromise }
    ELSE { }

\* loadNewQuestion(isInitial) from its call to the await of line 87
LoadNewQuestionFullScreen(isInitial) ==
    /\ status' = LOADING_QUESTION
    /\ isLoadingNext' = IF isInitial THEN isLoadingNext ELSE TRUE
    /\ selectedOption' = NullString
    /\ showConfetti' = FALSE
    /\ LET s0 == Slot(nextRoundPromise, fetches, nextReady)
           s1 == IF s0.promise = NoPromise THEN preloadNextQuestion(s0) ELSE s0
       IN /\ Len(s1.fetches) <= MaxFetches
          /\ SetSlot(s1)
          /\ waiters' = Append(waiters, s1.promise)
    /\ staleAtRetry' = staleAtRetry \cup StaleNow(isInitial)
    /\ UNCHANGED << questionData, imageUrl, shuffledOptions, stats, answers,
                    installed >>

LoadNewQuestionResetStats(isInitial) ==
    /\ status' = IF isInitial THEN LOADING_QUESTION ELSE status
    /\ isLoadingNext' = IF isInitial THEN isLoadingNext ELSE TRUE
    /\ selectedOption' = NullString
    /\ showConfetti' = FALSE
    /\ LET s0 == Slot(nextRoundPromise, fetches, nextReady)
           s1 == IF s0.promise = NoPromise THEN preloadNextQuestion(s0) ELSE s0
       IN /\ Len(s1.fetches) <= MaxFetches
          /\ SetSlot(s1)
          /\ waiters' = Append(waiters, s1.promise)
    /\ staleAtRetry' = staleAtRetry \cup StaleNow(isInitial)
    /\ stats' = IF isInitial THEN GameState(0, 0, 0) ELSE stats
    /\ UNCHANGED << questionData, imageUrl, shuffledOptions, answers,
                    installed >>

LoadNewQuestionDiscardStale(isInitial) ==
    /\ status' = IF isInitial THEN LOADING_QUESTION ELSE status
    /\ isLoadingNext' = IF isInitial THEN isLoadingNext ELSE TRUE
    /\ selectedOption' = NullString
    /\ showConfetti' = FALSE
    /\ LET s0 == Slot(IF isInitial THEN NoPromise ELSE nextRoundPromise,
                      fetches, nextReady)
           s1 == IF s0.promise = NoPromise THEN preloadNextQuestion(s0) ELSE s0
       IN /\ Len(s1.fetches) <= MaxFetches
          /\ SetSlot(s1)
          /\ waiters' = Append(waiters, s1.promise)
    /\ staleAtRetry' = staleAtRetry \cup StaleNow(isInitial)
    /\ UNCHANGED << questionData, imageUrl, shuffledOptions, stats, answers,
                    installed >>

LoadNewQuestion(isInitial) ==
    /\ status' = IF isInitial THEN LOADING_QUESTION ELSE status
    /\ isLoadingNext' = IF isInitial THEN isLoadingNext ELSE TRUE
    /\ selectedOption' = NullString
    /\ showConfetti' = FALSE
    /\ LET s0 == Slot(nextRoundPromise, fetches, nextReady)
           s1 == IF s0.promise = NoPromise THEN preloadNextQuestion(s0) ELSE s0
       IN /\ Len(s1.fetches) <= MaxFetches
          /\ SetSlot(s1)
          /\ waiters' = Append(waiters, s1.promise)
    /\ staleAtRetry' = staleAtRetry \cup StaleNow(isInitial)
    /\ UNCHANGED << questionData, imageUrl, shuffledOptions, stats, answers,
                    installed >>

\* the suspended call that runs next: the first whose promise has resolved
NextWaiterOnlyDone ==
    { k \in 1..Len(waiters) :
        /\ fetches[waiters[k]].phase = "done"
        /\ \A m \in 1..(k - 1) : ~Resolved(waiters[m]) }

NextWaiter ==
    { k \in 1..Len(waiters) :
        /\ Resolved(waiters[k])
        /\ \A m \in 1..(k - 1) : ~Resolved(waiters[m]) }

RemoveAt(seq, k) == SubSeq(seq, 1, k - 1) \o SubSeq(seq, k + 1, Len(seq))

\* the setters of lines 100-111 on a result {data, img}
InstallKeepImage(data, img, options) ==
    /\ questionData' = data
    /\ imageUrl' = imageUrl
    /\ shuffledOptions' = options
    /\ status' = READY_TO_ANSWER

Install(data, img, options) ==
    /\ questionData' = data
    /\ imageUrl' = img
    /\ shuffledOptions' = options
    /\ status' = READY_TO_ANSWER

\* The promise p once the suspended call k has taken its result and the slot
\* has let go of it: if no other suspended call awaits p, nothing refers to
\* its result any more, and the model forgets what the result held.
Release(fs, p, k) ==
    IF \E m \in DOMAIN waiters : m # k /\ waiters[m] = p
    THEN fs
    ELSE [ fs EXCEPT ![p] = Fetch(fs[p].phase, NullQuestion, NullImage) ]

\* line 114, on the slot the lines 90-91 have just cleared
NoPreloadAfterInstall(s) == s

PreloadAfterInstall(s) == preloadNextQuestion(s)

\* lines 93-95 and 116-118: the result is null, with the slot already cleared
FailLoadAndRetry(s) ==
    /\ status' = ERROR
    /\ SetSlot(preloadNextQuestion(s))
    /\ UNCHANGED << questionData, imageUrl, shuffledOptions, installed >>

FailLoadKeepSlot(s) ==
    /\ status' = ERROR
    /\ SetSlot(Slot(nextRoundPromise, s.fetches, s.nextReady))
    /\ UNCHANGED << questionData, imageUrl, shuffledOptions, installed >>

FailLoadClearsRound(s) ==
    /\ status' = ERROR
    /\ SetSlot(s)
    /\ questionData' = NullQuestion
    /\ imageUrl' = NullImage
    /\ shuffledOptions' = << >>
    /\ UNCHANGED installed

FailLoad(s) ==
    /\ status' = ERROR
    /\ SetSlot(s)
    /\ UNCHANGED << questionData, imageUrl, shuffledOptions, installed >>

\* loadNewQuestion from the await of line 87 to its end
LoadResumeKeepSlot ==
    \E k \in NextWaiter :
        LET result == fetches[waiters[k]]
            s0 == Slot(nextRoundPromise, fetches, nextReady)
        IN /\ waiters' = RemoveAt(waiters, k)
           /\ isLoadingNext' = FALSE
           /\ IF result.phase = "failed"
              THEN FailLoad(Slot(NoPromise, fetches, FALSE))
              ELSE /\ \E options \in ShuffledOptionsOf(result.data) :
                          Install(result.data, result.img, options)
                   /\ LET s1 == PreloadAfterInstall(s0)
                      IN /\ Len(s1.fetches) <= MaxFetches
                         /\ SetSlot(s1)
                   /\ installed' = Append(installed, waiters[k])
           /\ UNCHANGED << selectedOption, showConfetti, stats, answers,
                           staleAtRetry >>

LoadResume ==
    \E k \in NextWaiter :
        LET result == fetches[waiters[k]]
            \* lines 90-91
            s0 == Slot(NoPromise, Release(fetches, waiters[k], k), FALSE)
        IN /\ waiters' = RemoveAt(waiters, k)
           /\ isLoadingNext' = FALSE                  \* finally
           /\ IF result.phase = "failed"
              THEN FailLoad(s0)
              ELSE /\ \E options \in ShuffledOptionsOf(result.data) :
                          Install(result.data, result.img, options)
                   /\ LET s1 == PreloadAfterInstall(s0)
                      IN /\ Len(s1.fetches) <= MaxFetches
                         /\ SetSlot(s1)
                   /\ installed' = Append(installed, waiters[k])
           /\ UNCHANGED << selectedOption, showConfetti, stats, answers,
                           staleAtRetry >>

-----------------------------------------------------------------------------
(* App.tsx: handleAnswer *)

\* const isCorrect = answer === questionData?.correctName
IsCorrect(answer) ==
    /\ questionData # NullQuestion
    /\ answer = questionData.correctName

\* the updater passed to setStats, lines 142-146
ApplyAnswerSwapped(prev, isCorrect) ==
    GameState(prev.correct + (IF isCorrect THEN 0 ELSE 1),
              prev.incorrect + (IF isCorrect THEN 1 ELSE 0),
              IF isCorrect THEN prev.streak + 1 ELSE 0)

ApplyAnswerKeepStreak(prev, isCorrect) ==
    GameState(prev.correct + (IF isCorrect THEN 1 ELSE 0),
              prev.incorrect + (IF isCorrect THEN 0 ELSE 1),
              IF isCorrect THEN prev.streak + 1 ELSE prev.streak)

ApplyAnswer(prev, isCorrect) ==
    GameState(prev.correct + (IF isCorrect THEN 1 ELSE 0),
              prev.incorrect + (IF isCorrect THEN 0 ELSE 1),
              IF isCorrect THEN prev.streak + 1 ELSE 0)

\* the body of handleAnswer below its guard, lines 133-146
RecordAnswer(answer) ==
    /\ selectedOption' = answer
    /\ status' = ANSWERED
    /\ showConfetti' = (IF IsCorrect(answer) THEN TRUE ELSE showConfetti)
    /\ stats' = ApplyAnswer(stats, IsCorrect(answer))
    /\ answers' = Append(answers, IsCorrect(answer))
    /\ UNCHANGED << questionData, imageUrl, shuffledOptions, isLoadingNext,
                    nextReady, nextRoundPromise, fetches, waiters, installed,
                    staleAtRetry >>

handleAnswerUnguarded(answer) == RecordAnswer(answer)

handleAnswer(answer) ==
    IF status # READY_TO_ANSWER
    THEN UNCHANGED vars                               \* line 131: return
    ELSE RecordAnswer(answer)

-----------------------------------------------------------------------------
(* App.tsx: the events of the page *)

\* useEffect(() => { loadNewQuestion(true) }, []): runs once, on mount,
\* when the status still has its initial value
Mount ==
    /\ status = IDLE
    /\ LoadNewQuestion(TRUE)

\* the block of line 240 is rendered
ContentShown ==
    /\ \/ status = READY_TO_ANSWER
       \/ status = ANSWERED
       \/ (isLoadingNext /\ questionData # NullQuestion)
    /\ questionData # NullQuestion

\* handleKeyDown for the keys '1'..'4': index = parseInt(key) - 1
KeyDigit(index) ==
    /\ status = READY_TO_ANSWER
    /\ index + 1 \in DOMAIN shuffledOptions
    /\ shuffledOptions[index + 1] # ""
    /\ handleAnswer(shuffledOptions[index + 1])

\* handleKeyDown for the key 'Enter'
KeyEnterWhileLoading ==
    /\ status = ANSWERED
    /\ LoadNewQuestion(FALSE)

KeyEnter ==
    /\ status = ANSWERED
    /\ ~isLoadingNext
    /\ LoadNewQuestion(FALSE)

\* onClick of the option button idx (disabled unless READY_TO_ANSWER)
ClickOption(idx) ==
    /\ ContentShown
    /\ idx + 1 \in DOMAIN shuffledOptions
    /\ status = READY_TO_ANSWER
    /\ handleAnswer(shuffledOptions[idx + 1])

\* onClick of the "Next Specimen" button (disabled while isLoadingNext)
ClickNext ==
    /\ ContentShown
    /\ status = ANSWERED \/ isLoadingNext
    /\ ~isLoadingNext
    /\ LoadNewQuestion(FALSE)

\* onClick of the "Reboot System" button
ClickRebootNotInitial ==
    /\ status = ERROR
    /\ LoadNewQuestion(FALSE)

ClickReboot ==
    /\ status = ERROR
    /\ LoadNewQuestion(TRUE)

-----------------------------------------------------------------------------
(* The program *)

Init ==
    /\ status = IDLE
    /\ questionData = NullQuestion
    /\ imageUrl = NullImage
    /\ shuffledOptions = << >>
    /\ selectedOption = NullString
    /\ isLoadingNext = FALSE
    /\ nextReady = FALSE
    /\ showConfetti = FALSE
    /\ stats = GameState(0, 0, 0)
    /\ nextRoundPromise = NoPromise
    /\ fetches = << >>
    /\ waiters = << >>
    /\ answers = << >>
    /\ installed = << >>
    /\ staleAtRetry = { }

Next ==
    \/ Mount
    \/ \E index \in 0..3 : KeyDigit(index)
    \/ KeyEnter
    \/ \E idx \in 0..3 : ClickOption(idx)
    \/ ClickNext
    \/ ClickReboot
    \/ LoadResume
    \/ \E id \in DOMAIN fetches, q \in QuestionPool : DinoDataArrives(id, q)
    \/ \E id \in DOMAIN fetches : DinoDataFails(id)
    \/ \E id \in DOMAIN fetches : DinoImageArrives(id)
    \/ \E id \in DOMAIN fetches : DinoImageFails(id)

Spec == Init /\ [][Next]_vars

-----------------------------------------------------------------------------
(* The operations called directly, as a test of the component would call   *)
(* them: handleAnswer with any name in any status, preloadNextQuestion at  *)
(* any time.                                                               *)

submitAnswer(choice) == handleAnswer(choice)

startBackgroundFetch ==
    LET s == preloadNextQuestion(Slot(nextRoundPromise, fetches, nextReady))
    IN /\ Len(s.fetches) <= MaxFetches
       /\ SetSlot(s)
       /\ UNCHANGED << status, questionData, imageUrl, shuffledOptions,
                       selectedOption, isLoadingNext, showConfetti, stats,
                       waiters, answers, installed, staleAtRetry >>

NextOps ==
    \/ Next
    \/ \E choice \in Names : submitAnswer(choice)
    \/ startBackgroundFetch

SpecOps == Init /\ [][NextOps]_vars

-----------------------------------------------------------------------------
(* The game when every remote call that was issued resolves: each call of  *)
(* fetchRoundData goes on to its end, and a loadNewQuestion suspended on a  *)
(* resolved promise is resumed by the event loop.                           *)

\* the remote call the round fetch id has in flight resolves or throws
RemoteCallResolves(id) ==
    /\ id \in DOMAIN fetches
    /\ \/ \E q \in QuestionPool : DinoDataArrives(id, q)
       \/ DinoDataFails(id)
       \/ DinoImageArrives(id)
       \/ DinoImageFails(id)

EveryRemoteCallResolves ==
    \A id \in 1..MaxFetches : WF_vars(RemoteCallResolves(id))

SpecLive == Init /\ [][Next]_vars /\ EveryRemoteCallResolves /\ WF_vars(LoadResume)

-----------------------------------------------------------------------------
(* The shuffle on every question: the first load is waiting and its round  *)
(* fetch has resolved with any question over Names.                        *)

InitShuffle ==
    /\ status = LOADING_QUESTION
    /\ questionData = NullQuestion
    /\ imageUrl = NullImage
    /\ shuffledOptions = << >>
    /\ selectedOption = NullString
    /\ isLoadingNext = FALSE
    /\ nextReady = TRUE
    /\ showConfetti = FALSE
    /\ stats = GameState(0, 0, 0)
    /\ nextRoundPromise = 1
    /\ \E q \in AllQuestions :
           fetches = << Fetch("done", q,
                              generateDinoImage(q.correctName,
                                                q.visualDescription)) >>
    /\ waiters = << 1 >>
    /\ answers = << >>
    /\ installed = << >>
    /\ staleAtRetry = { }

SpecShuffle == InitShuffle /\ [][LoadResume]_vars

-----------------------------------------------------------------------------
(* Properties *)

Range(seq) == { seq[i] : i \in DOMAIN seq }

Occurrences(seq, x) == Cardinality({ i \in DOMAIN seq : seq[i] = x })

\* the length of the run of TRUE that ends the sequence
RECURSIVE TrailingRun(_)
TrailingRun(seq) ==
    IF seq = << >> \/ ~seq[Len(seq)]
    THEN 0
    ELSE 1 + TrailingRun(SubSeq(seq, 1, Len(seq) - 1))

\* one suspended loadNewQuestion call, awaiting promise p
JustWaiting(p) == << p >>

FetchesInFlight == { id \in DOMAIN fetches : InFlight(id) }

\* the step issues exactly one round fetch, and the slot holds its promise
IssuesOneFetch ==
    /\ Len(fetches') = Len(fetches) + 1
    /\ fetches'[Len(fetches')] = StartFetch
    /\ nextRoundPromise' = Len(fetches')

\* C1: a step taken in READY_TO_ANSWER that changes the status, the selection
\* or the stats is a whole submitAnswer(choice): the status becomes ANSWERED,
\* and with choice = correctName correct and streak grow by 1 and incorrect
\* stays, otherwise incorrect grows by 1, streak becomes 0 and correct stays.
C1_SubmitAnswerUpdatesStats ==
    [][ ( /\ status = READY_TO_ANSWER
          /\ \/ status' # status
             \/ selectedOption' # selectedOption
             \/ stats' # stats )
        => /\ status' = ANSWERED
           /\ selectedOption' # NullString
           /\ IF selectedOption' = questionData.correctName
              THEN stats' = GameState(stats.correct + 1, stats.incorrect,
                                      stats.streak + 1)
              ELSE stats' = GameState(stats.correct, stats.incorrect + 1, 0)
      ]_vars

\* a correct answer followed by an incorrect one, both counted
C1_Witness ==
    /\ status = ANSWERED
    /\ answers = << TRUE, FALSE >>
    /\ selectedOption # questionData.correctName
    /\ stats = GameState(1, 1, 0)

\* C2: with submitAnswer callable in every status, no step taken outside
\* READY_TO_ANSWER changes the stats, sets a selection or enters ANSWERED, and
\* the answers counted never outnumber the rounds installed.
C2_SubmitAnswerIgnoredUnlessReady ==
    /\ [][ status # READY_TO_ANSWER
           => /\ stats' = stats
              /\ answers' = answers
              /\ selectedOption' \in { selectedOption, NullString }
              /\ (status' = ANSWERED => status = ANSWERED) ]_vars
    /\ [](stats.correct + stats.incorrect <= Len(installed))

\* two rounds installed and both answered, the second by a direct call with a
\* name that is not among the options shown
C2_Witness ==
    /\ status = ANSWERED
    /\ Len(installed) = 2
    /\ stats.correct + stats.incorrect = 2
    /\ selectedOption \notin Range(shuffledOptions)

\* C3: streak is the length of the trailing run of correct answers among the
\* answers applied; it is 0 after an incorrect answer and never above correct.
C3_StreakIsTrailingRun ==
    /\ stats.streak = TrailingRun(answers)
    /\ stats.streak <= stats.correct
    /\ stats.correct = Occurrences(answers, TRUE)
    /\ stats.incorrect = Occurrences(answers, FALSE)
    /\ (answers # << >> /\ ~answers[Len(answers)]) => stats.streak = 0

C3_Witness ==
    /\ answers = << FALSE, TRUE, TRUE >>
    /\ stats.streak = 2

\* C4: with preloadNextQuestion callable at any time, at most one round fetch
\* is in flight; a round fetch is issued, one at a time, only when the slot is
\* empty or in the step that consumes the slot; and an occupied slot changes
\* only in the step that consumes it.
C4_PrefetchSingleton ==
    /\ [](Cardinality(FetchesInFlight) <= 1)
    /\ [][ fetches' # fetches /\ Len(fetches') # Len(fetches)
           => /\ Len(fetches') = Len(fetches) + 1
              /\ \/ nextRoundPromise = NoPromise
                 \/ Len(waiters') < Len(waiters) ]_vars
    /\ [][ nextRoundPromise # NoPromise /\ nextRoundPromise' # nextRoundPromise
           => Len(waiters') < Len(waiters) ]_vars

\* a prefetch in flight in a state where the player may answer
C4_Witness ==
    /\ status = READY_TO_ANSWER
    /\ nextRoundPromise # NoPromise
    /\ InFlight(nextRoundPromise)
    /\ Len(fetches) = 2

\* RoundData with 3 distractors, pairwise distinct and distinct from
\* correctName
ValidRound(q) ==
    /\ Len(q.distractors) = 3
    /\ \A i, j \in 1..3 : i # j => q.distractors[i] # q.distractors[j]
    /\ q.correctName \notin Range(q.distractors)

\* C5: for a valid round the installed OptionSet has length 4, holds
\* correctName exactly once, and holds every name as often as the distractors
\* plus correctName do.
C5_OptionSetIsPermutation ==
    (questionData # NullQuestion /\ ValidRound(questionData))
    => /\ Len(shuffledOptions) = 4
       /\ Occurrences(shuffledOptions, questionData.correctName) = 1
       /\ \A n \in Names \cup Range(shuffledOptions) :
              Occurrences(shuffledOptions, n)
              = Occurrences(questionData.distractors, n)
                + (IF n = questionData.correctName THEN 1 ELSE 0)

\* a valid round whose correct name the shuffle moved to the front
C5_Witness ==
    /\ status = READY_TO_ANSWER
    /\ ValidRound(questionData)
    /\ shuffledOptions[1] = questionData.correctName
    /\ shuffledOptions[4] = questionData.distractors[1]

\* C6: a first load or retry whose round fetch failed ends in ERROR; in ERROR
\* the slot is empty, no remote call is in flight and no load is waiting; and
\* a step that issues a fetch from ERROR is the retry (status LOADING_QUESTION).
C6_ErrorHasNoAutomaticRetry ==
    /\ [](status = ERROR
          => /\ nextRoundPromise = NoPromise
             /\ FetchesInFlight = { }
             /\ waiters = << >>)
    /\ [][ ( /\ status = LOADING_QUESTION
             /\ waiters # << >>
             /\ waiters' # waiters
             /\ fetches[Head(waiters)].phase = "failed" )
           => status' = ERROR ]_vars
    /\ [][ status = ERROR /\ fetches' # fetches
           => status' = LOADING_QUESTION ]_vars

\* ERROR for the second time: the retry's own round fetch failed too
C6_Witness ==
    /\ status = ERROR
    /\ installed = << >>
    /\ Len(fetches) = 2
    /\ fetches[2].phase = "failed"

\* C7: every step out of ERROR, like every step out of IDLE, enters
\* LOADING_QUESTION, issues exactly one round fetch and waits on it; and
\* LOADING_QUESTION is left either with the fetched round installed,
\* READY_TO_ANSWER and the next prefetch started, or to ERROR on failure.
C7_RetryIsFirstRequest ==
    /\ [][ (status = ERROR \/ status = IDLE)
           => /\ status' = LOADING_QUESTION
              /\ stats' = stats
              /\ IssuesOneFetch
              /\ waiters' = JustWaiting(nextRoundPromise') ]_vars
    /\ [][ status = LOADING_QUESTION /\ status' # LOADING_QUESTION
           => /\ waiters # << >>
              /\ LET result == fetches[Head(waiters)]
                 IN IF result.phase = "done"
                    THEN /\ status' = READY_TO_ANSWER
                         /\ questionData' = result.data
                         /\ imageUrl' = result.img
                         /\ IssuesOneFetch
                    ELSE /\ result.phase = "failed"
                         /\ status' = ERROR
                         /\ fetches' = fetches ]_vars

\* the first round fetch failed and the retry's round is the one installed
C7_Witness ==
    /\ status = READY_TO_ANSWER
    /\ installed = << 2 >>
    /\ fetches[1].phase = "failed"
    /\ InFlight(nextRoundPromise)

\* C8: an advance made in ANSWERED while the prefetch is unresolved sets the
\* loading flag and leaves status and round as they are; while the flag stays
\* set so do they; the flag is reset only once the awaited prefetch has
\* resolved, and on its success the prefetched data and image are installed
\* with status READY_TO_ANSWER; the flag is set only in ANSWERED.
C8_LoadingNextUntilResolved ==
    /\ [](isLoadingNext => status = ANSWERED /\ waiters # << >>)
    /\ [][ ( /\ status = ANSWERED
             /\ ~isLoadingNext
             /\ ~Resolved(nextRoundPromise) )
           => \/ UNCHANGED << status, isLoadingNext, waiters, questionData,
                              imageUrl, shuffledOptions >>
              \/ /\ isLoadingNext'
                 /\ waiters' = JustWaiting(nextRoundPromise)
                 /\ UNCHANGED << status, questionData, imageUrl,
                                 shuffledOptions, nextRoundPromise,
                                 fetches >> ]_vars
    /\ [][ isLoadingNext /\ isLoadingNext'
           => UNCHANGED << status, questionData, imageUrl, shuffledOptions,
                           waiters >> ]_vars
    /\ [][ isLoadingNext /\ ~isLoadingNext'
           => /\ Resolved(Head(waiters))
              /\ LET result == fetches[Head(waiters)]
                 IN result.phase = "done"
                    => /\ status' = READY_TO_ANSWER
                       /\ questionData' = result.data
                       /\ imageUrl' = result.img ]_vars

\* waiting for the second round while its image is still being generated
C8_Witness ==
    /\ isLoadingNext
    /\ status = ANSWERED
    /\ fetches[nextRoundPromise].phase = "image"
    /\ Len(installed) = 1

\* C9: when the prefetch an advance waits on has resolved with failure, the
\* advance ends with status ERROR, the loading flag reset, the slot empty and
\* the round, image, options and installed rounds as they were.
C9_AdvanceOnFailedPrefetch ==
    [][ ( /\ isLoadingNext
          /\ waiters # << >>
          /\ fetches[Head(waiters)].phase = "failed"
          /\ waiters' # waiters )
        => /\ status' = ERROR
           /\ ~isLoadingNext'
           /\ nextRoundPromise' = NoPromise
           /\ UNCHANGED << questionData, imageUrl, shuffledOptions,
                           installed, fetches >> ]_vars

\* ERROR reached from an answered round whose prefetch had failed
C9_Witness ==
    /\ status = ERROR
    /\ Len(installed) = 1
    /\ Len(answers) = 1
    /\ Len(fetches) = 2
    /\ fetches[2].phase = "failed"
    /\ questionData # NullQuestion

\* C10: the step that makes a round READY_TO_ANSWER issues the prefetch of the
\* next one, the step that answers it issues nothing, and in READY_TO_ANSWER
\* and ANSWERED the slot is never empty.
C10_PrefetchStartsWhenReady ==
    /\ [](status \in { READY_TO_ANSWER, ANSWERED }
          => nextRoundPromise # NoPromise)
    /\ [][ status # READY_TO_ANSWER /\ status' = READY_TO_ANSWER
           => IssuesOneFetch ]_vars
    /\ [][ status = READY_TO_ANSWER /\ status' = ANSWERED
           => UNCHANGED << fetches, nextRoundPromise >> ]_vars

\* the second round has just become answerable and the third is being fetched
C10_Witness ==
    /\ status = READY_TO_ANSWER
    /\ Len(installed) = 2
    /\ nextRoundPromise = 3
    /\ fetches[3].phase = "question"

FetchWellFormed(f) ==
    /\ f.phase \in { "question", "image", "done", "failed" }
    /\ f.phase \in { "question", "failed" }
       => f.data = NullQuestion /\ f.img = NullImage
    /\ f.phase = "image"
       => f.data \in QuestionPool /\ f.img = NullImage
    /\ f.phase = "done"
       => \/ f.data = NullQuestion /\ f.img = NullImage
          \/ /\ f.data \in QuestionPool
             /\ f.img = generateDinoImage(f.data.correctName,
                                          f.data.visualDescription)

\* how one round fetch may change in a step, from f to g
FetchStep(f, g) ==
    /\ (g.phase = "image" /\ f.phase # "image") => f.phase = "question"
    /\ (g.phase = "done" /\ f.phase # "done")
       => f.phase = "image" /\ g.data = f.data
    /\ f.phase = "failed" => g = f
    /\ g.data # f.data
       => \/ f.phase = "question" /\ g.phase = "image"
          \/ g.data = NullQuestion

\* C12: in a round fetch the image call is issued only from the state in
\* which the question call is in flight, on its success; the image of a
\* completed fetch is the one generated for its own question's name and
\* description; a failed fetch holds neither question nor image and never
\* changes again; a question enters a fetch only through that fetch's own
\* question call, and every new fetch starts without one.
C12_RoundFetchIsSequential ==
    /\ [](\A id \in DOMAIN fetches : FetchWellFormed(fetches[id]))
    /\ [][ \A id \in DOMAIN fetches : FetchStep(fetches[id], fetches'[id])
         ]_vars
    /\ [][ Len(fetches') # Len(fetches)
           => /\ Len(fetches') = Len(fetches) + 1
              /\ fetches'[Len(fetches')] = StartFetch ]_vars

\* the first round fetch failed whole; the second one completed and waits in
\* the slot with its question and the image generated for it
C12_Witness ==
    /\ Len(fetches) = 2
    /\ fetches[1].phase = "failed"
    /\ fetches[2].phase = "done"
    /\ fetches[2].data \in QuestionPool
    /\ nextRoundPromise = 2
    /\ status = LOADING_QUESTION

\* C13: a step that changes the stats is a submitAnswer: it goes from
\* READY_TO_ANSWER to ANSWERED with a selection, touches neither the round,
\* the slot, the fetches, the suspended loads nor the loading flag, and counts
\* exactly one more answer with neither correct nor incorrect decreasing.
C13_StatsChangeOnlyOnAnswer ==
    [][ stats' # stats
        => /\ status = READY_TO_ANSWER
           /\ status' = ANSWERED
           /\ selectedOption' # NullString
           /\ stats'.correct >= stats.correct
           /\ stats'.incorrect >= stats.incorrect
           /\ stats'.correct + stats'.incorrect
              = stats.correct + stats.incorrect + 1
           /\ UNCHANGED << questionData, imageUrl, shuffledOptions,
                           isLoadingNext, nextRoundPromise, fetches, waiters,
                           installed >> ]_vars

\* a correct answer still counted after a failed prefetch, the Error status,
\* a retry and the installation of the retry's round
C13_Witness ==
    /\ status = READY_TO_ANSWER
    /\ installed = << 1, 3 >>
    /\ fetches[2].phase = "failed"
    /\ stats = GameState(1, 0, 1)

\* C14: at most one loadNewQuestion call is suspended at a time; a call
\* is accepted only when none is waiting and the status is IDLE (mount), ERROR
\* (retry) or ANSWERED with the loading flag down (advance); the loading flag
\* is raised only by such an advance; and a round fetch is issued only by an
\* accepted call or by the installation of a round.
C14_AdvanceOnlyWhenAnsweredAndIdle ==
    /\ [](Len(waiters) <= 1)
    /\ [][ Len(waiters') > Len(waiters)
           => /\ waiters = << >>
              /\ \/ status = IDLE
                 \/ status = ERROR
                 \/ status = ANSWERED /\ ~isLoadingNext ]_vars
    /\ [][ isLoadingNext' /\ ~isLoadingNext
           => /\ status = ANSWERED
              /\ status' = ANSWERED
              /\ waiters = << >>
              /\ Len(waiters') = 1 ]_vars
    /\ [][ Len(fetches') > Len(fetches)
           => \/ Len(waiters') > Len(waiters)
              \/ status # READY_TO_ANSWER /\ status' = READY_TO_ANSWER ]_vars

\* an advance waiting for the third round, whose question is still being
\* generated: Enter and the button are both refused here
C14_Witness ==
    /\ isLoadingNext
    /\ waiters = JustWaiting(3)
    /\ fetches[3].phase = "question"
    /\ ~ENABLED KeyEnter
    /\ ~ENABLED ClickNext

\* the changes of status the claim C15 lists
StatusTransitions ==
    { << IDLE, LOADING_QUESTION >>,
      << LOADING_QUESTION, READY_TO_ANSWER >>,
      << LOADING_QUESTION, ERROR >>,
      << READY_TO_ANSWER, ANSWERED >>,
      << ANSWERED, READY_TO_ANSWER >>,
      << ANSWERED, ERROR >>,
      << ERROR, LOADING_QUESTION >> }

\* C15: the status is always one value of AppStatus; every change of it is one
\* of the seven listed transitions (none enters IDLE, none goes from
\* READY_TO_ANSWER to ERROR); and ERROR is entered only from LOADING_QUESTION
\* or from ANSWERED with an advance waiting.
C15_StatusTransitions ==
    /\ [](status \in AppStatus)
    /\ [][ status' # status => << status, status' >> \in StatusTransitions
         ]_vars
    /\ [][ status' = ERROR /\ status # ERROR
           => \/ status = LOADING_QUESTION
              \/ status = ANSWERED /\ isLoadingNext /\ waiters # << >>
         ]_vars

\* loading again after a round was answered, its advance ended in ERROR and
\* the retry was made: six of the seven transitions have been taken
C15_Witness ==
    /\ status = LOADING_QUESTION
    /\ Len(installed) = 1
    /\ Len(answers) = 1
    /\ Len(fetches) = 3
    /\ fetches[2].phase = "failed"

\* const isCorrect = selectedOption === questionData?.correctName (line 174):
\* the verdict the reveal card of lines 311-317 shows
ShownCorrect ==
    /\ questionData # NullQuestion
    /\ selectedOption = questionData.correctName

\* C16 as stated: in ANSWERED, an advance waiting or not, the selection is the
\* choice submitted for the round on screen, so that the verdict shown is the
\* verdict counted; in READY_TO_ANSWER there is no selection.
C16_SelectionKeptUntilInstall ==
    /\ status = ANSWERED
       => /\ selectedOption # NullString
          /\ answers # << >>
          /\ ShownCorrect = answers[Len(answers)]
    /\ status = READY_TO_ANSWER => selectedOption = NullString

\* the round on screen: its data, its image and the order of its options
CurrentRound == << questionData, imageUrl, shuffledOptions >>

\* C17: the round on screen changes only in the step that installs a round
\* (the resumed loadNewQuestion that records a new entry in installed and sets
\* READY_TO_ANSWER): answering, starting a prefetch, a prefetch resolving or
\* failing, an advance that starts waiting and the step to ERROR leave its
\* data, its image and the order of its options as they were.
C17_RoundFixedUntilNextInstall ==
    [][ /\ CurrentRound' # CurrentRound
           => /\ Len(installed') = Len(installed) + 1
              /\ status' = READY_TO_ANSWER
              /\ waiters' # waiters
        /\ installed' = installed => CurrentRound' = CurrentRound ]_vars

C17_Witness ==
    /\ status = ERROR
    /\ Len(installed) = 2
    /\ Len(answers) = 2
    /\ questionData.correctName = "Stegosaurus"
    /\ imageUrl = generateDinoImage("Stegosaurus", "plated back")
    /\ Len(shuffledOptions) = 4
    /\ fetches[Len(fetches)].phase = "failed"

\* the first load or a retry is waiting (the full-screen loader)
LoadingFirst == status = LOADING_QUESTION

\* an advance is waiting behind the round just answered
LoadingNext == status = ANSWERED /\ isLoadingNext

\* the round fetch the suspended loadNewQuestion awaits is still in flight
AwaitedCallInFlight ==
    /\ waiters # << >>
    /\ InFlight(Head(waiters))

\* the model has a round fetch left for the prefetch that follows an install
FetchLeft == Len(fetches) < MaxFetches

\* C18: when every remote call resolves, a loading phase (the first load or
\* a retry in LOADING_QUESTION, or an advance waiting in ANSWERED) leads to
\* READY_TO_ANSWER or ERROR with the loading flag down; and while the awaited
\* call is in flight in a loading phase, the only steps are steps of the round
\* fetches themselves, so that a call that never resolves leaves the phase as
\* it is.
C18_LoadingPhasesEnd ==
    /\ ((LoadingFirst \/ LoadingNext) /\ FetchLeft)
          ~> (~isLoadingNext /\ status \in { READY_TO_ANSWER, ERROR })
    /\ [][ ((LoadingFirst \/ LoadingNext) /\ AwaitedCallInFlight)
           => /\ \E id \in DOMAIN fetches : RemoteCallResolves(id)
              /\ UNCHANGED << status, isLoadingNext, waiters,
                              nextRoundPromise, questionData, imageUrl,
                              shuffledOptions, selectedOption, stats >> ]_vars

C18_Witness ==
    /\ LoadingNext
    /\ FetchLeft
    /\ AwaitedCallInFlight
    /\ fetches[Head(waiters)].phase = "image"
    /\ Len(installed) = 1

\* a round is on screen, answered or not, and no loadNewQuestion is suspended
PlayingNoAdvance ==
    /\ status \in { READY_TO_ANSWER, ANSWERED }
    /\ waiters = << >>

\* the slot holds a round fetch that has failed
FailedSlot ==
    /\ nextRoundPromise # NoPromise
    /\ fetches[nextRoundPromise].phase = "failed"

\* the prefetch of the slot fails in this step
PrefetchFailsNow ==
    /\ nextRoundPromise # NoPromise
    /\ InFlight(nextRoundPromise)
    /\ fetches'[nextRoundPromise].phase = "failed"

\* C19: a prefetch that fails while a round is on screen and no advance is
\* waiting changes neither the status, the round, the selection, the stats
\* nor the slot, and issues no fetch; while the failed result is in the slot
\* no fetch is issued, and the slot lets go of it only in the step of a
\* waiting advance to ERROR; from a round on screen ERROR is entered only by
\* an advance that waited on a failed fetch; and with the failed result in the
\* slot every option of a round still unanswered can be chosen.
C19_BackgroundFailureIsSilent ==
    /\ [][ (PlayingNoAdvance /\ PrefetchFailsNow)
           => /\ UNCHANGED << status, questionData, imageUrl, shuffledOptions,
                              selectedOption, stats, nextRoundPromise,
                              waiters, isLoadingNext >>
              /\ Len(fetches') = Len(fetches) ]_vars
    /\ [][ (status \in { READY_TO_ANSWER, ANSWERED } /\ FailedSlot)
           => /\ Len(fetches') = Len(fetches)
              /\ nextRoundPromise' # nextRoundPromise
                 => /\ status = ANSWERED
                    /\ isLoadingNext
                    /\ status' = ERROR ]_vars
    /\ [][ (status \in { READY_TO_ANSWER, ANSWERED } /\ status' = ERROR)
           => /\ status = ANSWERED
              /\ isLoadingNext
              /\ waiters # << >>
              /\ fetches[Head(waiters)].phase = "failed" ]_vars
    /\ []( (status = READY_TO_ANSWER /\ FailedSlot)
           => \A index \in 0..3 : ENABLED KeyDigit(index) )

C19_Witness ==
    /\ status = ANSWERED
    /\ ~isLoadingNext
    /\ waiters = << >>
    /\ FailedSlot
    /\ selectedOption # NullString
    /\ stats = GameState(1, 0, 1)

\* the image generateDinoImage returns for the question q
ImageOf(q) == generateDinoImage(q.correctName, q.visualDescription)

\* C20: a round on screen has the image that was generated for its own
\* correctName and visualDescription, and there is an image exactly when
\* there is a round; every resolved round fetch holds a question with the
\* image generated for it; and the step that installs a round takes the
\* question and the image from one and the same awaited round fetch.
C20_ImageBelongsToRound ==
    /\ []( /\ (questionData = NullQuestion) <=> (imageUrl = NullImage)
           /\ questionData # NullQuestion => imageUrl = ImageOf(questionData)
           /\ \A id \in DOMAIN fetches :
                 (fetches[id].phase = "done"
                  /\ fetches[id].data # NullQuestion)
                    => fetches[id].img = ImageOf(fetches[id].data) )
    /\ [][ Len(installed') = Len(installed) + 1
           => \E k \in DOMAIN waiters :
                 /\ fetches[waiters[k]].phase = "done"
                 /\ installed' = Append(installed, waiters[k])
                 /\ questionData' = fetches[waiters[k]].data
                 /\ imageUrl' = fetches[waiters[k]].img ]_vars

C20_Witness ==
    /\ status = READY_TO_ANSWER
    /\ Len(installed) = 2
    /\ questionData.correctName = "Nodosaurus"
    /\ imageUrl = generateDinoImage("Nodosaurus", "knobbly armor")
    /\ nextRoundPromise # NoPromise
    /\ fetches[nextRoundPromise].phase = "image"
    /\ fetches[nextRoundPromise].data.correctName = "Ankylosaurus"

\* C21: the round fetches installed so far are installed once each and in
\* the order in which they were started (a round fetch is numbered when it is
\* started), each of them resolved with a round; and the step that installs a
\* round fetch takes it out of the slot and leaves in the slot a fetch started
\* in that step, later than every fetch installed.
C21_InstalledOnceInOrder ==
    /\ []( /\ \A i, j \in DOMAIN installed :
                 i < j => installed[i] < installed[j]
           /\ \A i \in DOMAIN installed :
                 /\ installed[i] \in DOMAIN fetches
                 /\ fetches[installed[i]].phase = "done" )
    /\ [][ Len(installed') = Len(installed) + 1
           => /\ SubSeq(installed', 1, Len(installed)) = installed
              /\ nextRoundPromise' = Len(fetches) + 1
              /\ Len(fetches') = Len(fetches) + 1
              /\ InFlight(nextRoundPromise)'
              /\ \A i \in DOMAIN installed' :
                    installed'[i] < nextRoundPromise' ]_vars

C21_Witness ==
    /\ status = READY_TO_ANSWER
    /\ installed = << 1, 2, 3 >>
    /\ nextRoundPromise = 4
    /\ Len(answers) = 2

=============================================================================
